---- MODULE Spec2Model ----
(***************************************************************************)
(* Monthly sales dashboard (dashboard1.py): the per-rerun script           *)
(* load -> enrich_df -> KPI cards -> charts -> preview, with the           *)
(* st.cache_data memoization of read_csv, parse_sample and enrich_df.      *)
(*                                                                         *)
(* Column labels are written in ASCII:                                     *)
(*   month = "월", revenue = "매출액", prior = "전년동월",                 *)
(*   yoy = "증감률", quarter = "분기", date = "_date".                     *)
(***************************************************************************)
EXTENDS Integers, Sequences, FiniteSets, TLC

VARIABLES
    uploaded,      \* the file of st.file_uploader, or NoFile
    use_sample,    \* the "use sample" checkbox
    target,        \* the KPI target of st.number_input
    cache_read,    \* st.cache_data store of read_csv
    cache_sample,  \* st.cache_data store of parse_sample
    cache_enrich,  \* st.cache_data store of enrich_df
    df_raw,        \* the raw table of the last run of the script
    df,            \* the enriched table of the last run
    outcome,       \* how the last run ended
    rendered,      \* the elements the last run put on the page
    kpi,           \* the values of the four KPI cards of the last run
    charts         \* the data bound to the charts of the last run

vars == <<uploaded, use_sample, target, cache_read, cache_sample,
          cache_enrich, df_raw, df, outcome, rendered, kpi, charts>>

(***************************************************************************)
(* Bounds of the model.                                                    *)
(***************************************************************************)
\* Largest number of rows of a table drawn as input of enrich_df.
MaxRows == 2

(***************************************************************************)
(* float64 values.  A finite value is the exact number (n / d) * 10^e in   *)
(* canonical form (d > 0 prime to 10 and to n, n not a multiple of 10);    *)
(* "inf" carries its sign in n; "nan" is NaN.  Rounding is not modelled.   *)
(***************************************************************************)
RECURSIVE Gcd(_, _)
Gcd(a, b) == IF b = 0 THEN a ELSE Gcd(b, a % b)

Abs(x) == IF x < 0 THEN -x ELSE x

Sign(x) == IF x < 0 THEN -1 ELSE IF x > 0 THEN 1 ELSE 0

Min(a, b) == IF a < b THEN a ELSE b

RECURSIVE Pow10(_)
Pow10(e) == IF e = 0 THEN 1 ELSE 10 * Pow10(e - 1)

NaN == [k |-> "nan", n |-> 0, d |-> 1, e |-> 0]

Inf(s) == [k |-> "inf", n |-> s, d |-> 0, e |-> 0]

RECURSIVE StripNum(_, _, _)
StripNum(n, d, e) ==
    IF n = 0 THEN [k |-> "fin", n |-> 0, d |-> 1, e |-> 0]
    ELSE IF n % 10 = 0 THEN StripNum(n \div 10, d, e + 1)
    ELSE [k |-> "fin", n |-> n, d |-> d, e |-> e]

RECURSIVE StripDen(_, _, _)
StripDen(n, d, e) ==
    IF d % 2 = 0 THEN StripDen(n * 5, d \div 2, e - 1)
    ELSE IF d % 5 = 0 THEN StripDen(n * 2, d \div 5, e - 1)
    ELSE StripNum(n, d, e)

\* The canonical form of (n / d) * 10^e, d # 0.
FinE(n, d, e) ==
    LET g == Gcd(Abs(n), Abs(d))
        s == IF d < 0 THEN -1 ELSE 1
    IN  StripDen((s * n) \div g, (s * d) \div g, e)

Fin(n, d) == FinE(n, d, 0)

Zero == Fin(0, 1)

IsNaN(x) == x.k = "nan"

\* a - b on float64 (IEEE: inf - inf of one sign is NaN).
FSub(a, b) ==
    IF IsNaN(a) \/ IsNaN(b) THEN NaN
    ELSE IF a.k = "inf" /\ b.k = "inf"
         THEN IF a.n = b.n THEN NaN ELSE Inf(a.n)
    ELSE IF a.k = "inf" THEN Inf(a.n)
    ELSE IF b.k = "inf" THEN Inf(-b.n)
    ELSE LET e == Min(a.e, b.e)
         IN  FinE(a.n * Pow10(a.e - e) * b.d - b.n * Pow10(b.e - e) * a.d,
                  a.d * b.d, e)

\* a + b on float64.
FAdd(a, b) ==
    IF IsNaN(a) \/ IsNaN(b) THEN NaN
    ELSE IF a.k = "inf" /\ b.k = "inf"
         THEN IF a.n = b.n THEN a ELSE NaN
    ELSE IF a.k = "inf" THEN a
    ELSE IF b.k = "inf" THEN b
    ELSE LET e == Min(a.e, b.e)
         IN  FinE(a.n * Pow10(a.e - e) * b.d + b.n * Pow10(b.e - e) * a.d,
                  a.d * b.d, e)

\* a / b on float64 (IEEE: 0/0 and inf/inf are NaN, x/0 is +-inf, x/inf is 0).
FDiv(a, b) ==
    IF IsNaN(a) \/ IsNaN(b) THEN NaN
    ELSE IF a.k = "inf" /\ b.k = "inf" THEN NaN
    ELSE IF a.k = "inf"
         THEN Inf(IF b.n < 0 THEN -a.n ELSE a.n)
    ELSE IF b.k = "inf" THEN Zero
    ELSE IF b.n = 0
         THEN IF a.n = 0 THEN NaN ELSE Inf(Sign(a.n))
    ELSE FinE(a.n * b.d, a.d * b.n, a.e - b.e)

\* a * c for an integer literal c > 0.
FMulInt(a, c) ==
    IF a.k = "fin"
    THEN LET m == Fin(c, 1) IN FinE(a.n * m.n, a.d, a.e + m.e)
    ELSE a

\* a < b on float64 (any comparison with NaN is false).
FLess(a, b) ==
    IF IsNaN(a) \/ IsNaN(b) THEN FALSE
    ELSE IF a.k = "inf" THEN a.n < 0 /\ ~(b.k = "inf" /\ b.n < 0)
    ELSE IF b.k = "inf" THEN b.n > 0
    ELSE FSub(a, b).n < 0

\* Series.ne(0): NaN and +-inf differ from 0.
NeZero(x) == ~(x.k = "fin" /\ x.n = 0)

(***************************************************************************)
(* CSV cells as pd.read_csv delivers them: a decimal literal n/d, the      *)
(* literal "inf", some non-numeric text, or an empty (blank) cell.         *)
(***************************************************************************)
Num(n, d) == [t |-> "num", n |-> n, d |-> d]

Txt == [t |-> "txt", n |-> 0, d |-> 1]

Blank == [t |-> "blank", n |-> 0, d |-> 1]

InfCell == [t |-> "inf", n |-> 0, d |-> 1]

\* pd.to_numeric(cell, errors="coerce")
to_numeric(c) ==
    CASE c.t = "num" -> Fin(c.n, c.d)
      [] c.t = "inf" -> Inf(1)
      [] OTHER       -> NaN

(***************************************************************************)
(* The month column: strings are sequences of characters.                  *)
(***************************************************************************)
Digits == {"0", "1", "2", "3", "4", "5", "6", "7", "8", "9"}

DigitVal(c) ==
    CASE c = "0" -> 0 [] c = "1" -> 1 [] c = "2" -> 2 [] c = "3" -> 3
      [] c = "4" -> 4 [] c = "5" -> 5 [] c = "6" -> 6 [] c = "7" -> 7
      [] c = "8" -> 8 [] c = "9" -> 9

RECURSIVE LStrip(_)
LStrip(s) ==
    IF s # <<>> /\ Head(s) = " " THEN LStrip(Tail(s)) ELSE s

RECURSIVE RStrip(_)
RStrip(s) ==
    IF s # <<>> /\ s[Len(s)] = " "
    THEN RStrip(SubSeq(s, 1, Len(s) - 1)) ELSE s

\* str.strip()
Strip(s) == RStrip(LStrip(s))

NaT == [ok |-> FALSE, y |-> 0, m |-> 0]

\* pd.to_datetime(s, format="%Y-%m", errors="coerce") on a string with a
\* two-digit month field: four digits, a dash, a month 01..12; anything
\* else is NaT.
to_datetime(s) ==
    IF /\ Len(s) = 7
       /\ \A i \in {1, 2, 3, 4, 6, 7} : s[i] \in Digits
       /\ s[5] = "-"
    THEN LET y == 1000 * DigitVal(s[1]) + 100 * DigitVal(s[2])
                  + 10 * DigitVal(s[3]) + DigitVal(s[4])
             m == 10 * DigitVal(s[6]) + DigitVal(s[7])
         IN  IF m \in 1..12 THEN [ok |-> TRUE, y |-> y, m |-> m] ELSE NaT
    ELSE NaT

\* Order of two parsed dates, NaT excluded.
DateLeq(a, b) == a.y < b.y \/ (a.y = b.y /\ a.m <= b.m)

\* A quarter computed as month // 3 + 1.
dt_quarter_off_by_one(dt) ==
    IF dt.ok THEN Fin((dt.m \div 3) + 1, 1) ELSE NaN

\* Series.dt.quarter; NaN for NaT.
dt_quarter(dt) ==
    IF dt.ok THEN Fin(((dt.m - 1) \div 3) + 1, 1) ELSE NaN

(***************************************************************************)
(* Tables.  A raw table is [cols, rows]; a row holds one cell per column   *)
(* (a column that is not in cols is never read).  An enriched row also     *)
(* carries src, the position the row had in the input (the index label     *)
(* that reset_index(drop=True) discards), kept as a history field.         *)
(***************************************************************************)
Required == {"month", "revenue", "prior"}

\* A KeyError raised by df[c] on an absent column.
KeyError == [err |-> TRUE, cols |-> {}, rows |-> <<>>]

\* sort_values("_date", ascending=False) in place of the ascending order.
SortKeyDescending(a, b) ==
    IF a.ok THEN (~b.ok \/ DateLeq(b, a)) ELSE ~b.ok

\* Sort key order of sort_values("_date"): ascending, NaT last
\* (na_position="last").
SortKeyLeq(a, b) ==
    IF a.ok THEN (~b.ok \/ DateLeq(a, b)) ELSE ~b.ok

\* The orders sort_values may produce for the labels S: the default kind
\* (quicksort) is not stable, so rows of equal key come in any order.
RECURSIVE SortedOrders(_, _)
SortedOrders(dates, S) ==
    IF S = {} THEN {<<>>}
    ELSE UNION { { <<i>> \o t : t \in SortedOrders(dates, S \ {i}) } :
                 i \in { i \in S : \A j \in S : SortKeyLeq(dates[i], dates[j]) } }

\* df["월"].astype(str).str.strip() and pd.to_datetime of it, per input row.
ParsedDates(rows) ==
    [i \in DOMAIN rows |-> to_datetime(Strip(rows[i].month))]

\* df.sort_values("_date"): the set of row orders (sequences of input positions).
sort_values(rows) == SortedOrders(ParsedDates(rows), DOMAIN rows)

\* (revenue - prior) / prior * 100
YoyFormula(rev, pri) == FMulInt(FDiv(FSub(rev, pri), pri), 100)

\* The k-th smallest element of the set of labels S.
Nth(S, k) == CHOOSE j \in S : Cardinality({ x \in S : x <= j }) = k

\* The assignment by position (as with series.values on the right): the
\* k-th selected row receives the k-th value of the series.
LocAssignPositional(col, rowsel, series) ==
    [i \in DOMAIN col |->
        IF i \in rowsel
        THEN series[Nth(DOMAIN series, Cardinality({ x \in rowsel : x <= i }))]
        ELSE col[i]]

\* df.loc[rowsel, col] = series: the right-hand side is aligned on the index
\* labels; a selected label the series lacks receives NaN.
LocAssign(col, rowsel, series) ==
    [i \in DOMAIN col |->
        IF i \in rowsel
        THEN IF i \in DOMAIN series THEN series[i] ELSE NaN
        ELSE col[i]]

\* The back-fill without the missing_mask: every row is recomputed.
backfill_yoy_unmasked(rev, pri, yoy) ==
    LET rhs == [i \in DOMAIN yoy |-> YoyFormula(rev[i], pri[i])]
    IN  LocAssign(yoy, { i \in DOMAIN yoy : NeZero(pri[i]) }, rhs)

\* Lines 127-131: the back-fill of the rows whose yoy is NaN.
backfill_yoy(rev, pri, yoy) ==
    LET missing_mask == { i \in DOMAIN yoy : IsNaN(yoy[i]) }
        rhs == [i \in missing_mask |-> YoyFormula(rev[i], pri[i])]
    IN  LocAssign(yoy, { i \in missing_mask : NeZero(pri[i]) }, rhs)

\* The column without the fillna.
fillna_omitted(col, v) == col

\* Series.fillna(v)
fillna(col, v) == [i \in DOMAIN col |-> IF IsNaN(col[i]) THEN v ELSE col[i]]

\* enrich_df(df) for a row order ord chosen by sort_values.
enrich_df(raw, ord) ==
    IF ~(Required \subseteq raw.cols) THEN KeyError
    ELSE
    LET n    == Len(raw.rows)
        srt  == [i \in 1..n |-> raw.rows[ord[i]]]
        mon  == [i \in 1..n |-> Strip(srt[i].month)]
        dat  == [i \in 1..n |-> to_datetime(mon[i])]
        rev  == [i \in 1..n |-> to_numeric(srt[i].revenue)]
        pri  == [i \in 1..n |-> to_numeric(srt[i].prior)]
        yoy0 == [i \in 1..n |->
                    IF "yoy" \in raw.cols THEN to_numeric(srt[i].yoy) ELSE NaN]
        yoy  == fillna(backfill_yoy(rev, pri, yoy0), Zero)
    IN  [err  |-> FALSE,
         cols |-> raw.cols \cup {"date", "yoy", "quarter"},
         rows |-> [i \in 1..n |->
                    [src     |-> ord[i],
                     month   |-> mon[i],
                     date    |-> dat[i],
                     revenue |-> rev[i],
                     prior   |-> pri[i],
                     yoy     |-> yoy[i],
                     quarter |-> dt_quarter(dat[i])]]]

\* The tables enrich_df may return for raw (one per admissible row order).
EnrichResults(raw) ==
    IF ~(Required \subseteq raw.cols) THEN {KeyError}
    ELSE { enrich_df(raw, ord) : ord \in sort_values(raw.rows) }

(***************************************************************************)
(* The loader.  The bytes of a file are either the text of a CSV table     *)
(* (header and rows of cells) or bytes pd.read_csv cannot parse.           *)
(***************************************************************************)
\* No enriched table / no raw table (the run ended before producing one).
NoTable == [err |-> FALSE, cols |-> {}, rows |-> <<>>]

NoRaw == [cols |-> {}, rows |-> <<>>]

CsvText(cols, rows) == [kind |-> "csv", cols |-> cols, rows |-> rows]

Garbage == [kind |-> "garbage", cols |-> {}, rows |-> <<>>]

NoFile == [name |-> "", content |-> [kind |-> "none", cols |-> {}, rows |-> <<>>]]

\* pd.read_csv(bytes): the table, or a parser error (ok = FALSE).
pd_read_csv(content) ==
    IF content.kind = "csv"
    THEN [ok |-> TRUE, table |-> [cols |-> content.cols, rows |-> content.rows]]
    ELSE [ok |-> FALSE, table |-> NoRaw]

SampleRow(a, b, rev, pri, yn, yd) ==
    [month   |-> <<"2", "0", "2", "4", "-", a, b>>,
     revenue |-> Num(rev, 1),
     prior   |-> Num(pri, 1),
     yoy     |-> Num(yn, yd),
     quarter |-> Blank]

SAMPLE_CSV ==
    CsvText({"month", "revenue", "prior", "yoy"},
        << SampleRow("0", "1", 12000000, 10500000, 143, 10),
           SampleRow("0", "2", 13500000, 11200000, 205, 10),
           SampleRow("0", "3", 11000000, 12800000, -141, 10),
           SampleRow("0", "4", 18000000, 15200000, 184, 10),
           SampleRow("0", "5", 21000000, 18500000, 135, 10),
           SampleRow("0", "6", 22000000, 19000000, 158, 10),
           SampleRow("0", "7", 25000000, 20500000, 220, 10),
           SampleRow("0", "8", 28000000, 24500000, 143, 10),
           SampleRow("0", "9", 24000000, 21000000, 143, 10),
           SampleRow("1", "0", 23000000, 20000000, 150, 10),
           SampleRow("1", "1", 19500000, 17500000, 114, 10),
           SampleRow("1", "2", 17000000, 16500000, 30, 10) >>)

\* A key made of the file name alone.
FileKeyByName(f) == [name |-> f.name, content |-> NoFile.content]

\* The key st.cache_data derives from an uploaded file: its name and bytes.
FileKey(f) == [name |-> f.name, content |-> f.content]

\* The key st.cache_data derives from a DataFrame argument: its content.
TableKey(t) == [cols |-> t.cols, rows |-> t.rows]

\* The load with the sample toggle tested before the upload.
LoadDataSampleFirst(up, us, cr, cs) ==
    IF us
    THEN LET r == pd_read_csv(SAMPLE_CSV)
         IN  [status |-> "ok", raw |-> r.table,
              cr |-> cr, cs |-> (SAMPLE_CSV :> r.table) @@ cs]
    ELSE IF up # NoFile
    THEN LET r == pd_read_csv(up.content)
         IN  IF r.ok
             THEN [status |-> "ok", raw |-> r.table,
                   cr |-> (FileKey(up) :> r.table) @@ cr, cs |-> cs]
             ELSE [status |-> "raise", raw |-> NoRaw, cr |-> cr, cs |-> cs]
    ELSE [status |-> "stop", raw |-> NoRaw, cr |-> cr, cs |-> cs]

\* Lines 143-150: the raw table of this run and the stores after it.
\* status is "ok", "stop" (st.info and st.stop) or "raise" (read_csv raised).
LoadData(up, us, cr, cs) ==
    IF up # NoFile
    THEN IF FileKey(up) \in DOMAIN cr
         THEN [status |-> "ok", raw |-> cr[FileKey(up)], cr |-> cr, cs |-> cs]
         ELSE LET r == pd_read_csv(up.content)
              IN  IF r.ok
                  THEN [status |-> "ok", raw |-> r.table,
                        cr |-> (FileKey(up) :> r.table) @@ cr, cs |-> cs]
                  ELSE [status |-> "raise", raw |-> NoRaw, cr |-> cr, cs |-> cs]
    ELSE IF us
    THEN IF SAMPLE_CSV \in DOMAIN cs
         THEN [status |-> "ok", raw |-> cs[SAMPLE_CSV], cr |-> cr, cs |-> cs]
         ELSE LET r == pd_read_csv(SAMPLE_CSV)
              IN  [status |-> "ok", raw |-> r.table,
                   cr |-> cr, cs |-> (SAMPLE_CSV :> r.table) @@ cs]
    ELSE [status |-> "stop", raw |-> NoRaw, cr |-> cr, cs |-> cs]

\* The results the memoized enrich_df may return for raw under store ce.
EnrichCall(raw, ce) ==
    IF TableKey(raw) \in DOMAIN ce THEN {ce[TableKey(raw)]}
    ELSE EnrichResults(raw)

(***************************************************************************)
(* Presentation: the KPI cards (lines 159-172), the charts (176-228) and   *)
(* the preview (230-232).                                                  *)
(***************************************************************************)
NoKpi == [total |-> 0, avg_yoy |-> NaN, max_month |-> <<>>, max_rev |-> NaN,
          min_month |-> <<>>, min_rev |-> NaN]

NoCharts == [bar_colors |-> <<>>, rate |-> <<>>]

RECURSIVE SumSkipNa(_)
\* Series.sum(): NaN cells are skipped, the empty sum is 0.
SumSkipNa(col) ==
    IF col = <<>> THEN Zero
    ELSE IF IsNaN(Head(col)) THEN SumSkipNa(Tail(col))
    ELSE FAdd(Head(col), SumSkipNa(Tail(col)))

\* Series.mean(): NaN for an empty or all-NaN column.
Mean(col) ==
    LET n == Cardinality({ i \in DOMAIN col : ~IsNaN(col[i]) })
    IN  IF n = 0 THEN NaN ELSE FDiv(SumSkipNa(col), Fin(n, 1))

\* int(x) of a finite float: truncation toward zero.
IntOf(x) ==
    LET num == Abs(x.n) * (IF x.e > 0 THEN Pow10(x.e) ELSE 1)
        den == x.d * (IF x.e < 0 THEN Pow10(-x.e) ELSE 1)
    IN  Sign(x.n) * (num \div den)

\* Series.idxmax(): the first label holding the largest non-NaN value;
\* 0 when there is none (the lookup df.loc[max_idx, ...] then raises).
idxmax(col) ==
    LET live == { i \in DOMAIN col : ~IsNaN(col[i]) }
    IN  IF live = {} THEN 0
        ELSE CHOOSE i \in live :
                /\ \A j \in live : ~FLess(col[i], col[j])
                /\ \A j \in live : j < i => FLess(col[j], col[i])

\* Series.idxmin(): the first label holding the smallest non-NaN value.
idxmin(col) ==
    LET live == { i \in DOMAIN col : ~IsNaN(col[i]) }
    IN  IF live = {} THEN 0
        ELSE CHOOSE i \in live :
                /\ \A j \in live : ~FLess(col[j], col[i])
                /\ \A j \in live : j < i => FLess(col[i], col[j])

Column(t, c) == [i \in DOMAIN t.rows |-> t.rows[i][c]]

\* Line 216: revenue / (target if target else 1) * 100
KpiRate(rev, tg) ==
    FMulInt(FDiv(rev, Fin(IF tg # 0 THEN tg ELSE 1, 1)), 100)

\* Line 198: P0 if v >= 0 else P2
BarColor(v) ==
    IF ~IsNaN(v) /\ ~FLess(v, Zero) THEN "P0" ELSE "P2"

Cards == {"card_total", "card_avg", "card_max", "card_min"}

Charts == {"chart_trend", "chart_yoy", "chart_box", "chart_kpi"}

\* Lines 159-232 on the enriched table t with KPI target tg.
Presentation(t, tg) ==
    LET rev   == Column(t, "revenue")
        yoy   == Column(t, "yoy")
        total == SumSkipNa(rev)
        hi    == idxmax(rev)
        lo    == idxmin(rev)
    IN  IF total.k # "fin"
        THEN \* int() of inf or NaN raises in the first card
             [outcome |-> "render_raised", rendered |-> {}, kpi |-> NoKpi,
              charts |-> NoCharts]
        ELSE IF hi = 0
        THEN \* no numeric revenue: the lookup of the max row raises
             [outcome |-> "render_raised",
              rendered |-> {"card_total", "card_avg"},
              kpi |-> [NoKpi EXCEPT !.total = IntOf(total),
                                    !.avg_yoy = Mean(yoy)],
              charts |-> NoCharts]
        ELSE [outcome |-> "done",
              rendered |-> Cards \cup Charts \cup {"preview"},
              kpi |-> [total     |-> IntOf(total),
                       avg_yoy   |-> Mean(yoy),
                       max_month |-> t.rows[hi].month,
                       max_rev   |-> rev[hi],
                       min_month |-> t.rows[lo].month,
                       min_rev   |-> rev[lo]],
              charts |-> [bar_colors |-> [i \in DOMAIN yoy |-> BarColor(yoy[i])],
                          rate |-> [i \in DOMAIN rev |-> KpiRate(rev[i], tg)]]]

(***************************************************************************)
(* The script.  Every widget event re-runs it from the top.                *)
(***************************************************************************)
DefaultTarget == 20000000

TargetStep == 100000

Targets == {0, DefaultTarget, DefaultTarget + TargetStep}

RowOf(m, r, p, y, q) ==
    [month |-> m, revenue |-> r, prior |-> p, yoy |-> y, quarter |-> q]

Apr2024 == <<"2", "0", "2", "4", "-", "0", "4">>

Dec2023Padded == <<" ", "2", "0", "2", "3", "-", "1", "2", " ">>

Month13 == <<"2", "0", "2", "4", "-", "1", "3">>

AllCols == {"month", "revenue", "prior", "yoy"}

\* The contents uploaded in the sessions explored:
\* a table to be re-ordered, with an explicit and a blank yoy,
Reordered ==
    CsvText(AllCols, << RowOf(Apr2024, Num(3, 1), Num(2, 1), Num(5, 1), Blank),
                        RowOf(Dec2023Padded, Num(4, 1), Num(2, 1), Blank, Blank) >>)

\* a table without the yoy column,
NoYoyColumn ==
    CsvText(Required, << RowOf(Month13, Num(2, 1), Num(2, 1), Blank, Blank),
                         RowOf(Apr2024, Num(3, 1), Num(0, 1), Blank, Blank) >>)

\* a table without the prior column,
NoPriorColumn ==
    CsvText({"month", "revenue"},
            << RowOf(Apr2024, Num(3, 1), Blank, Blank, Blank) >>)

\* a table whose revenue cells are all non-numeric,
AllTextRevenue ==
    CsvText(Required, << RowOf(Apr2024, Txt, Num(2, 1), Blank, Blank),
                         RowOf(Dec2023Padded, Txt, Num(2, 1), Blank, Blank) >>)

\* a table with one non-numeric revenue cell,
SomeTextRevenue ==
    CsvText(Required, << RowOf(Apr2024, Txt, Num(2, 1), Blank, Blank),
                         RowOf(Dec2023Padded, Num(4, 1), Num(2, 1), Blank, Blank) >>)

\* and, under the names below, one content under two names and two
\* contents under one name; Garbage is bytes that are no CSV.
File(name, content) == [name |-> name, content |-> content]

Files ==
    { File("a.csv", Reordered), File("b.csv", Reordered),
      File("a.csv", NoYoyColumn), File("a.csv", NoPriorColumn),
      File("a.csv", AllTextRevenue), File("a.csv", SomeTextRevenue),
      File("a.csv", Garbage) }

\* The handler without its st.stop(): the run goes on after st.error.
EnrichOutcomeNoStop(e, tg) ==
    IF e.err
    THEN [outcome |-> "render_raised", rendered |-> {"error"}, kpi |-> NoKpi,
          charts |-> NoCharts]
    ELSE Presentation(e, tg)

\* Lines 152-232: what the run shows once enrich_df returned or raised e.
\* A raise is caught: st.error, then st.stop.
EnrichOutcome(e, tg) ==
    IF e.err
    THEN [outcome |-> "halt_error", rendered |-> {"error"}, kpi |-> NoKpi,
          charts |-> NoCharts]
    ELSE Presentation(e, tg)

\* One run of the script (lines 136-232) with the widget values up, us, tg.
\* outcome: "halt_info" and "halt_error" are runs ended by st.stop,
\* "load_raised" and "render_raised" are runs ended by an exception no
\* handler of the script catches, "done" is a run that reached the end.
Rerun(up, us, tg) ==
    LET ld == LoadData(up, us, cache_read, cache_sample)
    IN  /\ uploaded' = up
        /\ use_sample' = us
        /\ target' = tg
        /\ cache_read' = ld.cr
        /\ cache_sample' = ld.cs
        /\ df_raw' = ld.raw
        /\ IF ld.status # "ok"
           THEN /\ outcome' = (IF ld.status = "stop" THEN "halt_info" ELSE "load_raised")
                /\ rendered' = (IF ld.status = "stop" THEN {"info"} ELSE {})
                /\ UNCHANGED cache_enrich
                /\ df' = NoTable
                /\ kpi' = NoKpi
                /\ charts' = NoCharts
           ELSE \E e \in EnrichCall(ld.raw, cache_enrich) :
                LET pr == EnrichOutcome(e, tg)
                IN  /\ df' = e
                    /\ cache_enrich' = (IF e.err THEN cache_enrich
                                        ELSE (TableKey(ld.raw) :> e) @@ cache_enrich)
                    /\ outcome' = pr.outcome
                    /\ rendered' = pr.rendered
                    /\ kpi' = pr.kpi
                    /\ charts' = pr.charts

\* The empty store of a memoized function.
EmptyCache == [x \in {} |-> NoTable]

Init ==
    /\ uploaded = NoFile
    /\ use_sample = TRUE
    /\ target = DefaultTarget
    /\ cache_read = EmptyCache
    /\ cache_sample = EmptyCache
    /\ cache_enrich = EmptyCache
    /\ df_raw = NoRaw
    /\ df = NoTable
    /\ outcome = "init"
    /\ rendered = {}
    /\ kpi = NoKpi
    /\ charts = NoCharts

\* The first run of the script when the session opens.
FirstRun ==
    /\ outcome = "init"
    /\ Rerun(NoFile, TRUE, DefaultTarget)

\* The user uploads (or replaces the upload by) file f.  The checkbox is
\* declared with value = (uploaded is None): it is a new widget, at its
\* default, when that value changes.
Upload(f) ==
    /\ outcome # "init"
    /\ Rerun(f, IF uploaded = NoFile THEN FALSE ELSE use_sample, target)

\* The user removes the uploaded file.
ClearUpload ==
    /\ outcome # "init"
    /\ uploaded # NoFile
    /\ Rerun(NoFile, TRUE, target)

\* The user ticks or unticks "use sample".
ToggleSample ==
    /\ outcome # "init"
    /\ Rerun(uploaded, ~use_sample, target)

\* The user edits the KPI target.
SetTarget(t) ==
    /\ outcome # "init"
    /\ t # target
    /\ Rerun(uploaded, use_sample, t)

Next ==
    \/ FirstRun
    \/ \E f \in Files : Upload(f)
    \/ ClearUpload
    \/ ToggleSample
    \/ \E t \in Targets : SetTarget(t)

Spec == Init /\ [][Next]_vars

(***************************************************************************)
(* enrich_df as a pure function: every table of at most MaxRows rows over  *)
(* the cells below is an input, and one step applies enrich_df to it.      *)
(***************************************************************************)
MonthCells == {Apr2024, Dec2023Padded, Month13}

RevenueCells == {Num(3, 1), Txt, InfCell}

PriorCells == {Num(0, 1), Num(2, 1), Txt, InfCell}

YoyCells == {Num(5, 1), Txt, Blank}

\* A column named like the derived quarter, holding a value no quarter has.
QuarterCell == Num(9, 1)

\* Rows of a table that has the yoy column.
RowsWithYoy ==
    { RowOf(m, r, p, y, Blank) :
        m \in MonthCells, r \in {Num(3, 1), Txt},
        p \in PriorCells, y \in YoyCells }

\* Rows of a table that has no yoy column and has a quarter column.
RowsNoYoy ==
    { RowOf(m, r, p, Blank, QuarterCell) :
        m \in MonthCells, r \in RevenueCells, p \in PriorCells }

InitEnrich ==
    /\ \E k \in 0..MaxRows :
          \/ \E rs \in [1..k -> RowsWithYoy] :
                df_raw = [cols |-> AllCols, rows |-> rs]
          \/ \E rs \in [1..k -> RowsNoYoy] :
                df_raw = [cols |-> Required \cup {"quarter"}, rows |-> rs]
    /\ uploaded = NoFile
    /\ use_sample = FALSE
    /\ target = DefaultTarget
    /\ cache_read = EmptyCache
    /\ cache_sample = EmptyCache
    /\ cache_enrich = EmptyCache
    /\ df = NoTable
    /\ outcome = "init"
    /\ rendered = {}
    /\ kpi = NoKpi
    /\ charts = NoCharts

\* df = enrich_df(df_raw)
EnrichStep ==
    /\ outcome = "init"
    /\ \E e \in EnrichResults(df_raw) : df' = e
    /\ outcome' = "enriched"
    /\ UNCHANGED <<uploaded, use_sample, target, cache_read, cache_sample,
                   cache_enrich, df_raw, rendered, kpi, charts>>

SpecEnrich == InitEnrich /\ [][EnrichStep]_vars

(***************************************************************************)
(* Properties of enrich_df, checked under SpecEnrich.                      *)
(***************************************************************************)
Enriched == outcome = "enriched" /\ ~df.err

\* The input row an enriched row came from.
InRow(r) == df_raw.rows[r.src]

\* The cell is a number for pd.to_numeric ("inf" included).
Numeric(c) == c.t \in {"num", "inf"}

\* The input row supplies yoy as a number.
YoySupplied(in) == "yoy" \in df_raw.cols /\ Numeric(in.yoy)

\* The cell is the number 0.
IsZeroCell(c) == c.t = "num" /\ c.n = 0

\* (revenue - prior) / prior * 100 of a row whose prior is finite and
\* nonzero, from the cells a/b and c/d: ((a*d - c*b) * 100) / (b*c);
\* +-inf for revenue = inf.
ExpectedYoy(in) ==
    IF in.revenue.t = "inf" THEN Inf(Sign(in.prior.n * in.prior.d))
    ELSE Fin((in.revenue.n * in.prior.d - in.prior.n * in.revenue.d) * 100,
             in.revenue.d * in.prior.n)

\* C1, as claimed: every row whose yoy is missing, blank or non-numeric (or
\* whose yoy column is absent), with numeric revenue and numeric nonzero
\* prior, gets (revenue - prior) / prior * 100 of its own values.
C1_AsClaimed ==
    Enriched =>
        \A i \in DOMAIN df.rows :
            LET r == df.rows[i]
                in == InRow(r)
            IN  (/\ ~YoySupplied(in)
                 /\ Numeric(in.revenue) /\ Numeric(in.prior)
                 /\ ~IsZeroCell(in.prior))
                => r.yoy = YoyFormula(to_numeric(in.revenue), to_numeric(in.prior))

\* C1, amended: the same for every row whose prior is finite (not inf) and
\* nonzero: the row gets the value of the formula on its own input cells,
\* whatever position the sort gave it.
C1_BackfillFromOwnRow ==
    Enriched =>
        \A i \in DOMAIN df.rows :
            LET r == df.rows[i]
                in == InRow(r)
            IN  (/\ ~YoySupplied(in)
                 /\ Numeric(in.revenue)
                 /\ in.prior.t = "num" /\ in.prior.n # 0)
                => r.yoy = ExpectedYoy(in)

\* A back-filled row that the sort moved, next to a row with other values.
C1_Witness ==
    /\ Enriched
    /\ Len(df.rows) = 2
    /\ df.rows[2].src = 1
    /\ ~YoySupplied(InRow(df.rows[2]))
    /\ InRow(df.rows[2]).revenue = Num(3, 1)
    /\ InRow(df.rows[2]).prior = Num(2, 1)
    /\ df.rows[2].yoy = Fin(50, 1)
    /\ IsZeroCell(InRow(df.rows[1]).prior)

\* C2: no enriched row has a NaN yoy; a row whose yoy was not supplied as a
\* number and cannot be computed (prior is zero, or revenue or prior is
\* non-numeric) has yoy exactly 0; and every input row is kept.
C2_NoNaNYoy ==
    Enriched =>
        /\ Len(df.rows) = Len(df_raw.rows)
        /\ { df.rows[i].src : i \in DOMAIN df.rows } = DOMAIN df_raw.rows
        /\ \A i \in DOMAIN df.rows :
              LET r == df.rows[i]
                  in == InRow(r)
              IN  /\ ~IsNaN(r.yoy)
                  /\ (/\ ~YoySupplied(in)
                      /\ \/ IsZeroCell(in.prior)
                         \/ ~Numeric(in.revenue)
                         \/ ~Numeric(in.prior))
                     => r.yoy = Zero

\* A table without the yoy column and a row with prior = 0, kept with yoy 0.
C2_Witness ==
    /\ Enriched
    /\ "yoy" \notin df_raw.cols
    /\ \E i \in DOMAIN df.rows :
          /\ IsZeroCell(InRow(df.rows[i]).prior)
          /\ InRow(df.rows[i]).revenue = Num(3, 1)
          /\ df.rows[i].yoy = Zero

\* C3: a yoy cell that is present and numeric is left unchanged, whatever
\* revenue and prior are.
C3_ExplicitYoyKept ==
    Enriched =>
        \A i \in DOMAIN df.rows :
            LET r == df.rows[i]
                in == InRow(r)
            IN  YoySupplied(in) => r.yoy = Fin(in.yoy.n, in.yoy.d)

\* An explicit 5 kept where the formula gives 50.
C3_Witness ==
    /\ Enriched
    /\ \E i \in DOMAIN df.rows :
          /\ InRow(df.rows[i]).yoy = Num(5, 1)
          /\ InRow(df.rows[i]).revenue = Num(3, 1)
          /\ InRow(df.rows[i]).prior = Num(2, 1)
          /\ df.rows[i].yoy = Fin(5, 1)

\* Months since year 0 of a parsed date.
MonthIndex(dt) == 12 * dt.y + dt.m

\* C4: the enriched table holds exactly the input rows, ascending by parsed
\* month, the rows whose month does not parse after all the others.
C4_SortedAllRowsKept ==
    Enriched =>
        /\ Len(df.rows) = Len(df_raw.rows)
        /\ { df.rows[i].src : i \in DOMAIN df.rows } = DOMAIN df_raw.rows
        /\ \A i \in DOMAIN df.rows :
              /\ df.rows[i].month = Strip(InRow(df.rows[i]).month)
              /\ df.rows[i].revenue = to_numeric(InRow(df.rows[i]).revenue)
              /\ df.rows[i].prior = to_numeric(InRow(df.rows[i]).prior)
        /\ \A i, j \in DOMAIN df.rows :
              (j = i + 1 /\ df.rows[i].date.ok /\ df.rows[j].date.ok)
                => MonthIndex(df.rows[i].date) <= MonthIndex(df.rows[j].date)
        /\ \A i, j \in DOMAIN df.rows :
              (~df.rows[i].date.ok /\ df.rows[j].date.ok) => j < i

\* The sort moved rows: a later month given first, or an unparseable
\* month given first.
C4_Witness ==
    /\ Enriched
    /\ Len(df.rows) = 2
    /\ df.rows[1].src = 2
    /\ df.rows[1].date.ok
    /\ \/ ~df.rows[2].date.ok
       \/ MonthIndex(df.rows[1].date) < MonthIndex(df.rows[2].date)

\* The month number written in a stripped YYYY-MM string.
MonthNumber(s) == 10 * DigitVal(s[6]) + DigitVal(s[7])

\* C5: for a parseable month, quarter = ceil(month / 3)
\* = ((month - 1) div 3) + 1, in 1..4, also when the input has a column of
\* that name; for an unparseable month the quarter is undefined.
C5_QuarterDerived ==
    Enriched =>
        \A i \in DOMAIN df.rows :
            LET r == df.rows[i]
            IN  IF r.date.ok
                THEN \E q \in 1..4 :
                        /\ r.quarter = Fin(q, 1)
                        /\ q = ((MonthNumber(r.month) - 1) \div 3) + 1
                        /\ 3 * (q - 1) < MonthNumber(r.month)
                        /\ MonthNumber(r.month) <= 3 * q
                ELSE IsNaN(r.quarter)

\* December is quarter 4 although the input column quarter says 9.
C5_Witness ==
    /\ Enriched
    /\ "quarter" \in df_raw.cols
    /\ \E i \in DOMAIN df.rows :
          /\ InRow(df.rows[i]).quarter = QuarterCell
          /\ MonthNumber(df.rows[i].month) = 12
          /\ df.rows[i].quarter = Fin(4, 1)

(***************************************************************************)
(* Properties of the script, checked under Spec.                           *)
(***************************************************************************)
\* The last run obtained a raw table and called enrich_df on it.
Loaded == outcome \in {"halt_error", "render_raised", "done"}

\* Everything a run that reaches the end shows.
FullPage == Cards \cup Charts \cup {"preview"}

\* The content is a CSV table with the required columns whose revenue
\* cells are all finite numbers.
CleanContent(c) ==
    /\ c.kind = "csv"
    /\ Required \subseteq c.cols
    /\ c.rows # <<>>
    /\ \A i \in DOMAIN c.rows : c.rows[i].revenue.t = "num"

\* C6: a run whose loaded table lacks a required column ends with the
\* error message alone, no card, chart or preview; and the run that
\* follows it on valid input renders the whole page.
C6_SchemaErrorHalts ==
    /\ [](( Loaded /\ ~(Required \subseteq df_raw.cols) )
            => /\ outcome = "halt_error"
               /\ rendered = {"error"}
               /\ kpi = NoKpi
               /\ charts = NoCharts)
    /\ [][ ( /\ outcome = "halt_error"
             /\ \/ uploaded' # NoFile /\ CleanContent(uploaded'.content)
                \/ uploaded' = NoFile /\ use_sample' )
           => (outcome' = "done" /\ rendered' = FullPage) ]_vars

\* A run on the table without the prior column, halted on the message.
C6_Witness ==
    /\ outcome = "halt_error"
    /\ uploaded # NoFile
    /\ uploaded.content = NoPriorColumn
    /\ "prior" \notin df_raw.cols
    /\ rendered = {"error"}

\* C7, as claimed: a run whose upload cannot be parsed ends with a message
\* shown by the script, the failure caught, nothing else rendered.
C7_AsClaimed ==
    ( /\ outcome # "init"
      /\ uploaded # NoFile
      /\ ~pd_read_csv(uploaded.content).ok )
    => (outcome = "halt_error" /\ rendered = {"error"})

RECURSIVE SumNumericCells(_)
\* The sum of the cells of a column that are finite integers.
SumNumericCells(cells) ==
    IF cells = <<>> THEN 0
    ELSE (IF Head(cells).t = "num" THEN Head(cells).n ELSE 0)
         + SumNumericCells(Tail(cells))

\* C8, as claimed: a run on a table with the required columns and some
\* (possibly all) non-numeric revenue cells keeps those rows with revenue
\* undefined, renders the four cards and the four charts, and shows as
\* total the sum of the numeric revenue cells.
C8_AsClaimed ==
    ( /\ Loaded
      /\ Required \subseteq df_raw.cols
      /\ \E i \in DOMAIN df_raw.rows : ~Numeric(df_raw.rows[i].revenue) )
    => /\ Len(df.rows) = Len(df_raw.rows)
       /\ \A i \in DOMAIN df.rows :
             ~Numeric(df_raw.rows[df.rows[i].src].revenue)
                => IsNaN(df.rows[i].revenue)
       /\ outcome = "done"
       /\ Cards \cup Charts \subseteq rendered
       /\ kpi.total = SumNumericCells(Column(df_raw, "revenue"))

\* The raw table the widgets of the last run select.
SelectedRaw ==
    IF uploaded # NoFile THEN pd_read_csv(uploaded.content).table
    ELSE pd_read_csv(SAMPLE_CSV).table

C10_SourceSelection ==
    outcome # "init" =>
        /\ uploaded # NoFile =>
              /\ outcome # "halt_info"
              /\ outcome # "load_raised"
                    => df_raw = pd_read_csv(uploaded.content).table
        /\ (uploaded = NoFile /\ use_sample) =>
              /\ df_raw = [cols |-> SAMPLE_CSV.cols, rows |-> SAMPLE_CSV.rows]
              /\ Len(df_raw.rows) = 12
              /\ outcome = "done"
        /\ (uploaded = NoFile /\ ~use_sample) =>
              /\ outcome = "halt_info"
              /\ rendered = {"info"}
              /\ df_raw = NoRaw
              /\ df = NoTable
              /\ kpi = NoKpi
              /\ charts = NoCharts
        /\ df_raw.rows = SAMPLE_CSV.rows => (uploaded = NoFile /\ use_sample)

\* A file is uploaded and the sample toggle is on: the file is rendered.
C10_Witness ==
    /\ uploaded = File("a.csv", Reordered)
    /\ use_sample
    /\ outcome = "done"
    /\ Len(df_raw.rows) = 2

====
